---------------------------- MODULE Spec2Model ----------------------------
(***************************************************************************)
(* AST-to-IR lowering of uwucc (analysis/src/lower.rs): the type/layout    *)
(* interner LoweringCx, the per-function context FnLoweringCtxt driving    *)
(* the CFG builder, and lower_translation_unit.                            *)
(*                                                                         *)
(* Source positions (Span) are modelled as paths in the syntax tree: a     *)
(* sequence of naturals.  The span of a node is a proper prefix of the     *)
(* spans of the nodes it contains, and two different nodes have different  *)
(* spans, as byte ranges of a parsed file do.                              *)
(***************************************************************************)
EXTENDS Integers, Sequences, FiniteSets, TLC

(***************************************************************************)
(* Bounds of the model.                                                    *)
(***************************************************************************)
MaxStmts == 4
MaxScopeStmts == 6
MaxExprStmts == 2
MaxTypeDecls == 2
MaxDepth == 2
MaxFuncs == 1
MaxArena == 4

(***************************************************************************)
(* ty::TyKind and parser::ast::TypeSpecifier as lower.rs uses them.        *)
(***************************************************************************)
NoInt == "-"

IntSigns == {"Signed", "Unsigned"}

IntTyKinds == {"Short", "Int", "Long", "LongLong"}

TypeSpecifier(k, sign, ik) == [k |-> k, sign |-> sign, ik |-> ik]

PlainSpecifiers ==
  {TypeSpecifier(k, NoInt, NoInt) :
     k \in {"Void", "Char", "SChar", "UChar", "Float", "Double", "LongDouble", "Bool"}}

TypeSpecifiers ==
  PlainSpecifiers \cup {TypeSpecifier("Integer", s, i) : s \in IntSigns, i \in IntTyKinds}

TyKind(k, sign, ik, to) == [k |-> k, sign |-> sign, ik |-> ik, to |-> to]

TyKindVoid == TyKind("Void", NoInt, NoInt, 0)

Layout_size_align(size, align) == [size |-> size, align |-> align]

(***************************************************************************)
(* LoweringCx: tys and layouts are hash sets of references into the arena. *)
(* A reference is the index of the allocation in the arena, so identity of *)
(* two references is equality of two indices.                              *)
(***************************************************************************)
NewLoweringCx == [tys |-> {}, layouts |-> {}, arena |-> <<>>]

intern_ty_always_alloc(cx, kind) ==
  [cx |-> [cx EXCEPT !.arena = Append(cx.arena, kind),
                     !.tys = cx.tys \cup {Len(cx.arena) + 1}],
   ty |-> Len(cx.arena) + 1]

intern_ty(cx, kind) ==
  LET opt_kind == {a \in cx.tys : cx.arena[a] = kind}
  IN  IF opt_kind # {}
        THEN [cx |-> cx, ty |-> CHOOSE a \in opt_kind : TRUE]
        ELSE [cx |-> [cx EXCEPT !.arena = Append(cx.arena, kind),
                                !.tys = cx.tys \cup {Len(cx.arena) + 1}],
              ty |-> Len(cx.arena) + 1]

intern_layout(cx, layout) ==
  LET opt_layout == {a \in cx.layouts : cx.arena[a] = layout}
  IN  IF opt_layout # {}
        THEN [cx |-> cx, layout |-> CHOOSE a \in opt_layout : TRUE]
        ELSE [cx |-> [cx EXCEPT !.arena = Append(cx.arena, layout),
                                !.layouts = cx.layouts \cup {Len(cx.arena) + 1}],
              layout |-> Len(cx.arena) + 1]

lower_ty(cx, spec) ==
  LET kind == CASE spec.k = "Void" -> TyKindVoid
                [] spec.k = "Char" -> TyKind("Char", NoInt, NoInt, 0)
                [] spec.k = "SChar" -> TyKind("SChar", NoInt, NoInt, 0)
                [] spec.k = "UChar" -> TyKind("UChar", NoInt, NoInt, 0)
                [] spec.k = "Integer" -> TyKind("Integer", spec.sign, spec.ik, 0)
                [] spec.k = "Float" -> TyKind("Float", NoInt, NoInt, 0)
                [] spec.k = "Double" -> TyKind("Double", NoInt, NoInt, 0)
                [] spec.k = "LongDouble" -> TyKind("LongDouble", NoInt, NoInt, 0)
                [] spec.k = "Bool" -> TyKind("Bool", NoInt, NoInt, 0)
  IN  intern_ty(cx, kind)

AggregateKinds == {"Struct", "Union", "Enum"}

\* The (size, align) layout_of computes for a type kind that it can lay out.
LayoutOfKind(kind) ==
  CASE kind.k = "Void" -> Layout_size_align(0, 1)
    [] kind.k = "Char" -> Layout_size_align(1, 1)
    [] kind.k = "SChar" -> Layout_size_align(1, 1)
    [] kind.k = "UChar" -> Layout_size_align(1, 1)
    [] kind.k = "Integer" ->
         (CASE kind.ik = "Short" -> Layout_size_align(2, 2)
            [] kind.ik = "Int" -> Layout_size_align(4, 4)
            [] kind.ik = "Long" -> Layout_size_align(8, 8)
            [] kind.ik = "LongLong" -> Layout_size_align(8, 8))
    [] kind.k = "Float" -> Layout_size_align(4, 4)
    [] kind.k = "Double" -> Layout_size_align(8, 8)
    [] kind.k = "LongDouble" -> Layout_size_align(8, 8)
    [] kind.k = "Bool" -> Layout_size_align(1, 1)
    [] kind.k = "Ptr" -> Layout_size_align(8, 8)

\* res = "todo" is the todo!() panic of an aggregate type.
layout_of(cx, ty) ==
  IF cx.arena[ty].k \in AggregateKinds
    THEN [res |-> "todo", cx |-> cx, tyl |-> [ty |-> ty, layout |-> 0]]
    ELSE LET r == intern_layout(cx, LayoutOfKind(cx.arena[ty]))
         IN  [res |-> "ok", cx |-> r.cx, tyl |-> [ty |-> ty, layout |-> r.layout]]


(***************************************************************************)
(* IR data model: operands, statements, block terminators.                 *)
(***************************************************************************)
Reg(r) == [o |-> "Reg", v |-> r]

Const(v) == [o |-> "Const", v |-> v]

NoOperand == [o |-> "None", v |-> 0]

BranchUnset == [k |-> "Unset", target |-> 0, cond |-> NoOperand, yes |-> 0, no |-> 0]

BranchGoto(bb) == [k |-> "Goto", target |-> bb, cond |-> NoOperand, yes |-> 0, no |-> 0]

BranchSwitch(cond, yes, no) ==
  [k |-> "Switch", target |-> 0, cond |-> cond, yes |-> yes, no |-> no]

(***************************************************************************)
(* The CFG builder (lower/builder.rs).  A block handle is the position of  *)
(* the block in bbs counted from 0, a register is the position of its      *)
(* entry in regs counted from 0; TLA+ sequences count from 1.              *)
(***************************************************************************)
EmptyBlock == [statements |-> <<>>, term |-> BranchUnset]

FuncBuilder_new(name, def_span, ret_ty) ==
  [name |-> name, def_span |-> def_span, ret_ty |-> ret_ty,
   bbs |-> <<EmptyBlock>>, regs |-> <<>>, current_bb |-> 0]

new_block(b) ==
  [build |-> [b EXCEPT !.bbs = Append(@, EmptyBlock)], bb |-> Len(b.bbs)]

bb_mut_term(b, bb, term) == [b EXCEPT !.bbs[bb + 1].term = term]

cur_bb_mut_term(b, term) == bb_mut_term(b, b.current_bb, term)

push_statement(b, stmt) ==
  [b EXCEPT !.bbs[b.current_bb + 1].statements = Append(@, stmt)]

new_reg(b, name) == [build |-> [b EXCEPT !.regs = Append(@, name)], reg |-> Len(b.regs)]

alloca(b, layout, name, span) ==
  LET r == new_reg(b, name)
  IN  [build |-> push_statement(r.build,
                   [kind |-> "Alloca", span |-> span, result |-> r.reg,
                    size |-> layout.size, align |-> layout.align]),
       reg |-> r.reg]

store(b, ptr, value, layout, span) ==
  push_statement(b, [kind |-> "Store", span |-> span, ptr |-> Reg(ptr), value |-> value,
                     size |-> layout.size, align |-> layout.align])

binary(b, kind, lhs, rhs, span, result_layout) ==
  LET r == new_reg(b, "")
  IN  [build |-> push_statement(r.build,
                   [kind |-> "BinOp", span |-> span, bin |-> kind,
                    lhs |-> lhs, rhs |-> rhs, result |-> r.reg]),
       reg |-> r.reg]

call(b, result_layout, callee, args, span) ==
  LET r == new_reg(b, "")
  IN  [build |-> push_statement(r.build,
                   [kind |-> "Call", span |-> span, result |-> r.reg,
                    func |-> callee, args |-> args]),
       reg |-> r.reg]

(***************************************************************************)
(* Expressions (parser::ast::Expr).                                        *)
(***************************************************************************)
AtomInt(i) == [e |-> "Int", v |-> i]

AtomChar(ch) == [e |-> "Char", v |-> ch]

AtomIdent(name) == [e |-> "Ident", name |-> name]

AtomFloat == [e |-> "Float"]

AtomString == [e |-> "String"]

ExprUnary(rhs) == [e |-> "Unary", rhs |-> rhs]

ExprBinary(op, lhs, rhs) == [e |-> "Binary", op |-> op, lhs |-> lhs, rhs |-> rhs]

ExprCall(lhs, args) == [e |-> "Postfix", pop |-> "Call", lhs |-> lhs, args |-> args]

ExprPostfix(lhs, pop) == [e |-> "Postfix", pop |-> pop, lhs |-> lhs, args |-> <<>>]

\* The BinKind of a surface operator; "todo" for the operators lower_expr panics on.
BinKindOf(op) ==
  CASE op = "Mul" -> "Mul"
    [] op = "Div" -> "Div"
    [] op = "Mod" -> "Mod"
    [] op = "Add" -> "Add"
    [] op = "Sub" -> "Sub"
    [] op = "Lt" -> "Lt"
    [] op = "Gt" -> "Gt"
    [] op = "LtEq" -> "Leq"
    [] op = "GtEq" -> "Geq"
    [] op = "Eq" -> "Eq"
    [] op = "Neq" -> "Neq"
    [] op \in {"Shl", "Shr", "BitAnd", "BitXor", "BitOr", "LogicalAnd", "LogicalOr",
               "Comma", "Index", "Assign"} -> "todo"

\* The todo!() message of each operator without a BinKind.
BinTodoMessage(op) ==
  CASE op = "Shl" -> "shl"
    [] op = "Shr" -> "shr"
    [] op = "BitAnd" -> "&"
    [] op = "BitXor" -> "^"
    [] op = "BitOr" -> "|"
    [] op = "LogicalAnd" -> "no logical or"
    [] op = "LogicalOr" -> "no logical and"
    [] op = "Comma" -> "no comma"
    [] op = "Index" -> "no index"
    [] op = "Assign" -> "no assign"

Fault(msg, span, sym) == [msg |-> msg, span |-> span, sym |-> sym]

NoFault == Fault("", <<>>, "")

\* lower_expr's outcome: res = "ok" with the operand, or res = "todo" (a panic);
\* c is the context (interner and builder) as the call leaves it.
ExprOk(c, op) == [res |-> "ok", c |-> c, op |-> op, fault |-> NoFault]

ExprTodo(c, msg, span, sym) ==
  [res |-> "todo", c |-> c, op |-> NoOperand, fault |-> Fault(msg, span, sym)]

\* self.lcx.layout_of(self.lcx.intern_ty(TyKind::Void)): the interner after it.
VoidLayoutCx(cx) == layout_of(intern_ty(cx, TyKindVoid).cx, intern_ty(cx, TyKindVoid).ty).cx

\* Which operand of a binary expression is lowered first, which second.
BinaryOperandOrderSwapped == <<"rhs", "lhs">>

BinaryOperandOrder == <<"lhs", "rhs">>

SubSpan(span, which) ==
  Append(span, CASE which = "lhs" -> 1 [] which = "rhs" -> 2 [] which = "callee" -> 0)

RECURSIVE lower_expr(_, _, _)
RECURSIVE lower_args(_, _, _, _, _)

\* args.iter().map(|(arg, sp)| self.lower_expr(arg, *sp)).collect(), from argument i on.
lower_args(args, i, span, c, acc) ==
  IF i > Len(args)
    THEN [res |-> "ok", c |-> c, ops |-> acc, fault |-> NoFault]
    ELSE LET r == lower_expr(args[i], Append(span, i), c)
         IN  IF r.res # "ok"
               THEN [res |-> r.res, c |-> r.c, ops |-> acc, fault |-> r.fault]
               ELSE lower_args(args, i + 1, span, r.c, Append(acc, r.op))

lower_expr(expr, span, c) ==
  CASE expr.e = "Char" -> ExprOk(c, Const(expr.v))
    [] expr.e = "Int" -> ExprOk(c, Const(expr.v))
    [] expr.e = "Float" -> ExprTodo(c, "no floats", span, "")
    [] expr.e = "Ident" -> ExprTodo(c, "no idents", span, expr.name)
    [] expr.e = "String" -> ExprTodo(c, "no string literals", span, "")
    [] expr.e = "Unary" -> ExprTodo(c, "no unaries", span, "")
    [] expr.e = "Binary" ->
         LET first == BinaryOperandOrder[1]
             second == BinaryOperandOrder[2]
             r1 == lower_expr(expr[first], SubSpan(span, first), c)
             r2 == lower_expr(expr[second], SubSpan(span, second), r1.c)
             lhs == IF first = "lhs" THEN r1.op ELSE r2.op
             rhs == IF first = "lhs" THEN r2.op ELSE r1.op
             kind == BinKindOf(expr.op)
             cx == VoidLayoutCx(r2.c.lcx)
             b == binary(r2.c.build, kind, lhs, rhs, span, Layout_size_align(0, 1))
         IN  IF r1.res # "ok" THEN r1
             ELSE IF r2.res # "ok" THEN r2
             ELSE IF kind = "todo" THEN ExprTodo(r2.c, BinTodoMessage(expr.op), span, "")
             ELSE ExprOk([lcx |-> cx, build |-> b.build], Reg(b.reg))
    [] expr.e = "Postfix" ->
         LET r0 == lower_expr(expr.lhs, SubSpan(span, "callee"), c)
             ra == lower_args(expr.args, 1, span, r0.c, <<>>)
             cx == VoidLayoutCx(ra.c.lcx)
             b == call(ra.c.build, Layout_size_align(0, 1), r0.op, ra.ops, span)
         IN  IF r0.res # "ok" THEN r0
             ELSE IF expr.pop = "Member" THEN ExprTodo(r0.c, "member expr", span, "")
             ELSE IF expr.pop = "ArrowMember"
               THEN ExprTodo(r0.c, "arrow member expr", span, "")
             ELSE IF expr.pop = "Increment"
               THEN ExprTodo(r0.c, "gotta have lvalues", span, "")
             ELSE IF expr.pop = "Decrement" THEN ExprTodo(r0.c, "not yet implemented", span, "")
             ELSE IF ra.res # "ok"
               THEN [res |-> ra.res, c |-> ra.c, op |-> NoOperand, fault |-> ra.fault]
             ELSE ExprOk([lcx |-> cx, build |-> b.build], Reg(b.reg))

(***************************************************************************)
(* Statements (parser::ast::Stmt) and declarations.                        *)
(***************************************************************************)
NoInit == [e |-> "None"]

InitDecl(name, pointer, init) == [name |-> name, pointer |-> pointer, init |-> init]

StmtDecl(ty, attrs, declarators) ==
  [s |-> "Decl", ty |-> ty, attrs |-> attrs, declarators |-> declarators]

StmtExpr(expr) == [s |-> "Expr", expr |-> expr]

StmtIf(cond, otherwise) == [s |-> "If", cond |-> cond, otherwise |-> otherwise]

StmtOther(kind) == [s |-> kind]

\* The statements lower_stmt panics on, each with its message.
UnsupportedStmts ==
  {"StaticAssert", "Labeled", "Compound", "Switch", "While", "For", "Goto", "Continue",
   "Break", "Return"}

StmtTodoMessage(kind) ==
  CASE kind = "StaticAssert" -> "Expected normal declaration, found static assert declaration"
    [] kind = "Labeled" -> "labels are not implemented"
    [] kind = "Compound" -> "blocks are not implemented"
    [] OTHER -> "not yet implemented"

IsAssignment(stmt) ==
  /\ stmt.s = "Expr"
  /\ stmt.expr.e = "Binary"
  /\ stmt.expr.op \in {"Assign", "AssignOp"}

(***************************************************************************)
(* FnLoweringCtxt: the scope stack (innermost last) and name resolution.   *)
(***************************************************************************)
VariableInfo(def_span, tyl, ptr_to, decl_attr) ==
  [def_span |-> def_span, tyl |-> tyl, ptr_to |-> ptr_to, decl_attr |-> decl_attr]

None == [some |-> FALSE]

Some(v) == [some |-> TRUE, v |-> v]

MaxOf(S) == CHOOSE m \in S : \A n \in S : n <= m

\* self.scopes.iter().rev().find_map(|s| s.get(&ident))
resolve_ident(scps, ident) ==
  LET hits == {i \in 1..Len(scps) : ident \in DOMAIN scps[i]}
  IN  IF hits = {} THEN None ELSE Some(scps[MaxOf(hits)][ident])

\* self.scopes.last_mut().unwrap().insert(name, variable_info)
scope_insert(scps, name, info) ==
  [scps EXCEPT ![Len(scps)] = (name :> info) @@ @]

(***************************************************************************)
(* lower_stmt, Stmt::Decl: the loop over the declarators from i on.        *)
(* res = "ok" or "todo" (a panic); c and scps as the loop leaves them.     *)
(***************************************************************************)
RECURSIVE lower_declarators(_, _, _, _, _, _)
lower_declarators(decl, i, ty, c, scps, stmt_span) ==
  IF i > Len(decl.declarators)
    THEN [res |-> "ok", c |-> c, scps |-> scps, fault |-> NoFault]
    ELSE LET var == decl.declarators[i]
             def_span == Append(stmt_span, i)
             init_span == Append(def_span, 0)
             l == layout_of(c.lcx, ty)
             layout == l.cx.arena[l.tyl.layout]
             a == alloca(c.build, layout, var.name, stmt_span)
             info == VariableInfo(def_span, l.tyl, a.reg, decl.attrs)
             scps1 == scope_insert(scps, var.name, info)
             c1 == [lcx |-> l.cx, build |-> a.build]
             r == lower_expr(var.init, init_span, c1)
             c2 == [r.c EXCEPT !.build = store(r.c.build, a.reg, r.op, layout, init_span)]
         IN  IF l.res # "ok"
               THEN [res |-> "todo", c |-> c, scps |-> scps,
                     fault |-> Fault("layout_of", stmt_span, "")]
             ELSE IF var.init = NoInit
               THEN lower_declarators(decl, i + 1, ty, c1, scps1, stmt_span)
             ELSE IF r.res # "ok"
               THEN [res |-> "todo", c |-> r.c, scps |-> scps1, fault |-> r.fault]
             ELSE lower_declarators(decl, i + 1, ty, c2, scps1, stmt_span)

lower_decl(decl, c, scps, stmt_span) ==
  LET t == lower_ty(c.lcx, decl.ty)
  IN  lower_declarators(decl, 1, t.ty, [c EXCEPT !.lcx = t.cx], scps, stmt_span)

(***************************************************************************)
(* lower_stmt, Stmt::Expr of a Binary with op Assign.                      *)
(* res = "ok", "todo" (a panic) or "err" (Err returned, in err).           *)
(***************************************************************************)
Error_new(msg, span) == [msg |-> msg, span |-> span]

NoError == Error_new("", <<>>)

AssignResult(res, c, fault, err) == [res |-> res, c |-> c, fault |-> fault, err |-> err]

lower_assign(expr, c, scps, stmt_span) ==
  LET r == lower_expr(expr.rhs, SubSpan(stmt_span, "rhs"), c)
      var == resolve_ident(scps, expr.lhs.name)
      layout == r.c.lcx.arena[var.v.tyl.layout]
  IN  IF expr.op = "AssignOp"
        THEN AssignResult("todo", c, Fault("assign operation", stmt_span, ""), NoError)
      ELSE IF r.res # "ok" THEN AssignResult("todo", r.c, r.fault, NoError)
      ELSE IF expr.lhs.e # "Ident"
        THEN AssignResult("todo", r.c, Fault("complex assignments", stmt_span, ""), NoError)
      ELSE IF ~var.some
        THEN AssignResult("err", r.c, NoFault,
                          Error_new("cannot find variable", SubSpan(stmt_span, "lhs")))
      ELSE AssignResult("ok",
                        [r.c EXCEPT !.build = store(r.c.build, var.v.ptr_to, r.op, layout,
                                                    stmt_span)],
                        NoFault, NoError)

(***************************************************************************)
(* lower_stmt, Stmt::If: the blocks made before the bodies are lowered,    *)
(* and the terminators written after them.                                 *)
(***************************************************************************)
NoBlock == 0 - 1

IfBlocks(b, pred, then, els, cont) ==
  [build |-> b, pred |-> pred, then |-> then, els |-> els, cont |-> cont]

if_blocks_cont_not_made(b, otherwise) ==
  LET t == new_block(b)
      e == IF otherwise THEN new_block(t.build) ELSE [build |-> t.build, bb |-> NoBlock]
  IN  IfBlocks(e.build, b.current_bb, t.bb, e.bb, Len(e.build.bbs))

if_blocks(b, otherwise) ==
  LET t == new_block(b)
      e == IF otherwise THEN new_block(t.build) ELSE [build |-> t.build, bb |-> NoBlock]
      k == new_block(e.build)
  IN  IfBlocks(k.build, b.current_bb, t.bb, e.bb, k.bb)

false_branch_always_cont(frame) == frame.cont

false_branch(frame) == IF frame.els # NoBlock THEN frame.els ELSE frame.cont

patch_pred_keep_current(b, frame) ==
  bb_mut_term(b, frame.pred, BranchSwitch(frame.cond, frame.then, false_branch(frame)))

\* self.build.bb_mut(pred).term = Branch::Switch {..}; self.build.current_bb = cont
patch_pred(b, frame) ==
  [bb_mut_term(b, frame.pred, BranchSwitch(frame.cond, frame.then, false_branch(frame)))
     EXCEPT !.current_bb = frame.cont]

\* finish(): the builder's blocks all carry a terminator.
AllTerminated(b) == \A i \in 1..Len(b.bbs) : b.bbs[i].term.k # "Unset"

(***************************************************************************)
(* State.                                                                  *)
(*   tu_pc     where lower_translation_unit is: "tu" in its loop over the  *)
(*             external declarations, "body" inside lower_body of a        *)
(*             function, "abort" after a panic, "error" after Err.         *)
(*   lcx       the LoweringCx                                              *)
(*   build     the FuncBuilder of the function being lowered               *)
(*   scopes    FnLoweringCtxt.scopes                                       *)
(*   stack     the active calls of lower_stmt on an if statement, the      *)
(*             innermost last, each with its locals                        *)
(*   cursor    the span of the statement the innermost lower_body loop     *)
(*             takes next                                                  *)
(*   prog      the statements handed to lower_stmt so far, with spans      *)
(*   finished  the builders handed to finish()                             *)
(*   fault     the panic that aborted the pass                             *)
(*   err       the Error returned                                          *)
(*   interned  the last call made on the interner from outside the         *)
(*             lowering, with the interner as it was before the call       *)
(***************************************************************************)
VARIABLES tu_pc, lcx, build, scopes, stack, cursor, prog, finished, fault, err, interned

vars == <<tu_pc, lcx, build, scopes, stack, cursor, prog, finished, fault, err, interned>>

NoCall == [fn |-> "", arg |-> 0, ret |-> 0, before |-> NewLoweringCx]

NoBuild ==
  [name |-> "", def_span |-> <<>>, ret_ty |-> 0, bbs |-> <<>>, regs |-> <<>>,
   current_bb |-> 0]

Init ==
  /\ tu_pc = "tu"
  /\ lcx = NewLoweringCx
  /\ build = NoBuild
  /\ scopes = <<>>
  /\ stack = <<>>
  /\ cursor = <<>>
  /\ prog = <<>>
  /\ finished = <<>>
  /\ fault = NoFault
  /\ err = NoError
  /\ interned = NoCall

NextSpan(span) == [span EXCEPT ![Len(span)] = @ + 1]

Panic(f) ==
  /\ tu_pc' = "abort"
  /\ fault' = f
  /\ UNCHANGED <<stack, cursor, finished, err, interned>>

\* The statement at the cursor was lowered; the loop of lower_body goes on.
Lowered ==
  /\ cursor' = NextSpan(cursor)
  /\ UNCHANGED <<tu_pc, stack, finished, fault, err, interned>>

(***************************************************************************)
(* lower_translation_unit.                                                 *)
(***************************************************************************)
\* The loop is over: todo!("building is not really").
TuEnd ==
  /\ tu_pc = "tu"
  /\ Panic(Fault("building is not really", <<>>, ""))
  /\ UNCHANGED <<lcx, build, scopes, prog>>

\* ExternalDecl::Decl
TuDecl ==
  /\ tu_pc = "tu"
  /\ Panic(Fault("decl is unsupported", <<Len(finished) + 1>>, ""))
  /\ UNCHANGED <<lcx, build, scopes, prog>>

\* ExternalDecl::FunctionDef: lower_ty of the return type, then lower_body
\* makes the FnLoweringCtxt.
TuFunctionDef(ret_tys) ==
  /\ tu_pc = "tu"
  /\ Len(finished) < MaxFuncs
  /\ \E ret \in ret_tys :
       LET t == lower_ty(lcx, ret)
           def_span == <<Len(finished) + 1>>
       IN  /\ lcx' = t.cx
           /\ build' = FuncBuilder_new("main", def_span, t.ty)
           /\ scopes' = << <<>> >>
           /\ cursor' = Append(def_span, 1)
  /\ tu_pc' = "body"
  /\ stack' = <<>>
  /\ prog' = <<>>
  /\ UNCHANGED <<finished, fault, err, interned>>

(***************************************************************************)
(* lower_stmt, one action for each arm of its match.                       *)
(***************************************************************************)
CanLower(max) == tu_pc = "body" /\ Len(prog) < max

Taken(stmt) == prog' = Append(prog, [span |-> cursor, stmt |-> stmt])

LowerDecl(decls, max) ==
  /\ CanLower(max)
  /\ \E decl \in decls :
       LET r == lower_decl(decl, [lcx |-> lcx, build |-> build], scopes, cursor)
       IN  /\ Taken(decl)
           /\ lcx' = r.c.lcx
           /\ build' = r.c.build
           /\ scopes' = r.scps
           /\ IF r.res = "ok" THEN Lowered ELSE Panic(r.fault)

LowerUnsupported(max) ==
  /\ CanLower(max)
  /\ \E kind \in UnsupportedStmts :
       /\ Taken(StmtOther(kind))
       /\ Panic(Fault(StmtTodoMessage(kind), cursor, ""))
  /\ UNCHANGED <<lcx, build, scopes>>

LowerIf(conds, max) ==
  /\ CanLower(max)
  /\ Len(stack) < MaxDepth
  /\ \E cond \in conds, otherwise \in BOOLEAN :
       LET r == lower_expr(cond, SubSpan(cursor, "callee"), [lcx |-> lcx, build |-> build])
           blocks == if_blocks(r.c.build, otherwise)
           frame == [span |-> cursor, arm |-> "then", cond |-> r.op, pred |-> blocks.pred,
                     then |-> blocks.then, els |-> blocks.els, cont |-> blocks.cont]
       IN  /\ Taken(StmtIf(cond, otherwise))
           /\ lcx' = r.c.lcx
           /\ IF r.res = "ok"
                THEN /\ build' = [blocks.build EXCEPT !.current_bb = blocks.then]
                     /\ stack' = Append(stack, frame)
                     /\ cursor' = cursor \o <<1, 1>>
                     /\ UNCHANGED <<tu_pc, finished, fault, err, interned>>
                ELSE /\ build' = r.c.build
                     /\ Panic(r.fault)
  /\ UNCHANGED scopes

LowerAssign(assigns, max) ==
  /\ CanLower(max)
  /\ \E expr \in assigns :
       LET r == lower_assign(expr, [lcx |-> lcx, build |-> build], scopes, cursor)
       IN  /\ Taken(StmtExpr(expr))
           /\ lcx' = r.c.lcx
           /\ build' = r.c.build
           /\ CASE r.res = "ok" -> Lowered
                [] r.res = "todo" -> Panic(r.fault)
                [] r.res = "err" ->
                     /\ tu_pc' = "error"
                     /\ err' = r.err
                     /\ UNCHANGED <<stack, cursor, finished, fault, interned>>
  /\ UNCHANGED scopes

LowerExpr(exprs, max) ==
  /\ CanLower(max)
  /\ \E expr \in exprs :
       LET r == lower_expr(expr, cursor, [lcx |-> lcx, build |-> build])
       IN  /\ Taken(StmtExpr(expr))
           /\ lcx' = r.c.lcx
           /\ build' = r.c.build
           /\ IF r.res = "ok" THEN Lowered ELSE Panic(r.fault)
  /\ UNCHANGED scopes

(***************************************************************************)
(* The loop of a lower_body call is over.                                  *)
(***************************************************************************)
Top == stack[Len(stack)]

Pop == SubSeq(stack, 1, Len(stack) - 1)

\* The then body: Goto(cont); then the else body, or the Switch of pred.
EndThenBody ==
  /\ tu_pc = "body"
  /\ stack # <<>>
  /\ Top.arm = "then"
  /\ LET b == cur_bb_mut_term(build, BranchGoto(Top.cont))
     IN  IF Top.els # NoBlock
           THEN /\ build' = [b EXCEPT !.current_bb = Top.els]
                /\ stack' = [stack EXCEPT ![Len(stack)].arm = "else"]
                /\ cursor' = Top.span \o <<2, 1>>
           ELSE /\ build' = patch_pred(b, Top)
                /\ stack' = Pop
                /\ cursor' = NextSpan(Top.span)
  /\ UNCHANGED <<tu_pc, lcx, scopes, prog, finished, fault, err, interned>>

\* The else body: Goto(cont), then the Switch of pred.
EndElseBody ==
  /\ tu_pc = "body"
  /\ stack # <<>>
  /\ Top.arm = "else"
  /\ build' = patch_pred(cur_bb_mut_term(build, BranchGoto(Top.cont)), Top)
  /\ stack' = Pop
  /\ cursor' = NextSpan(Top.span)
  /\ UNCHANGED <<tu_pc, lcx, scopes, prog, finished, fault, err, interned>>

\* The body of the function: Ok(cx.build.finish()); finish() asserts that
\* every block carries a terminator.
EndFunctionBody ==
  /\ tu_pc = "body"
  /\ stack = <<>>
  /\ finished' = Append(finished, build)
  /\ IF AllTerminated(build)
       THEN /\ tu_pc' = "tu"
            /\ fault' = fault
       ELSE /\ tu_pc' = "abort"
            /\ fault' = Fault("unterminated block", build.def_span, "")
  /\ UNCHANGED <<lcx, build, scopes, stack, cursor, prog, err, interned>>

(***************************************************************************)
(* The translation units of the specification Spec: functions of           *)
(* declarations of int variables, assignments, calls and if statements.    *)
(***************************************************************************)
Names == {"x", "y"}

IntSpec == TypeSpecifier("Integer", "Signed", "Int")

NoAttrs == 0

CtlRetTys == {IntSpec}

CtlDecls ==
  {StmtDecl(IntSpec, NoAttrs, <<InitDecl(n, FALSE, NoInit)>>) : n \in Names}
    \cup {StmtDecl(IntSpec, NoAttrs, <<InitDecl("x", FALSE, AtomInt(2))>>)}

CtlAssigns ==
  {ExprBinary("Assign", AtomIdent(n), AtomInt(1)) : n \in Names}
    \cup {ExprBinary("Assign", AtomIdent("x"),
                     ExprBinary("Add", AtomIdent("x"), AtomIdent("y"))),
          ExprBinary("Assign", AtomIdent("y"), ExprBinary("Shl", AtomInt(1), AtomInt(2))),
          ExprBinary("AssignOp", AtomIdent("x"), AtomInt(1)),
          ExprBinary("Assign", AtomInt(1), AtomInt(1))}

CtlExprs == {ExprCall(AtomInt(1), <<>>), AtomIdent("x")}

CtlConds ==
  {ExprBinary("Lt", AtomInt(1), AtomInt(2)), ExprBinary("Lt", AtomIdent("x"), AtomIdent("y"))}

Next ==
  \/ TuEnd
  \/ TuDecl
  \/ TuFunctionDef(CtlRetTys)
  \/ LowerDecl(CtlDecls, MaxStmts)
  \/ LowerUnsupported(MaxStmts)
  \/ LowerIf(CtlConds, MaxStmts)
  \/ LowerAssign(CtlAssigns, MaxStmts)
  \/ LowerExpr(CtlExprs, MaxStmts)
  \/ EndThenBody
  \/ EndElseBody
  \/ EndFunctionBody

Spec == Init /\ [][Next]_vars

(***************************************************************************)
(* The translation units of SpecScope: functions of declarations of x,     *)
(* assignments to x and to y, and if statements, nested.                   *)
(***************************************************************************)
ScopeDecls == {StmtDecl(IntSpec, NoAttrs, <<InitDecl("x", FALSE, NoInit)>>)}

ScopeAssigns == {ExprBinary("Assign", AtomIdent(n), AtomInt(1)) : n \in Names}

ScopeConds == {AtomInt(1)}

NextScope ==
  \/ TuFunctionDef(CtlRetTys)
  \/ LowerDecl(ScopeDecls, MaxScopeStmts)
  \/ LowerIf(ScopeConds, MaxScopeStmts)
  \/ LowerAssign(ScopeAssigns, MaxScopeStmts)
  \/ EndThenBody
  \/ EndElseBody
  \/ EndFunctionBody

SpecScope == Init /\ [][NextScope]_vars

(***************************************************************************)
(* The translation units of SpecExpr: functions of expression statements,  *)
(* the expressions nested up to three deep.                                *)
(***************************************************************************)
Literals == {AtomInt(1), AtomInt(2)}

Call0 == ExprCall(AtomInt(1), <<>>)

Add12 == ExprBinary("Add", AtomInt(1), AtomInt(2))

Depth1Exprs ==
  {ExprBinary(op, AtomInt(1), AtomInt(2)) : op \in {"Add", "Lt", "Mul"}}
    \cup {Call0, ExprCall(AtomInt(1), <<AtomInt(1), AtomInt(2)>>),
          ExprCall(AtomInt(2), <<AtomInt(2), AtomInt(1)>>)}

Depth2Operands == {AtomInt(1), Add12, Call0}

Depth2Exprs ==
  {ExprBinary(op, l, r) : op \in {"Add", "Lt"}, l \in Depth2Operands, r \in Depth2Operands}
    \cup {ExprCall(Call0, <<Add12, Call0>>)}

Depth3Exprs ==
  {ExprBinary("Sub", ExprBinary("Add", Add12, Call0), ExprBinary("Lt", Call0, Add12)),
   ExprCall(AtomInt(1), <<ExprBinary("Add", Call0, Add12), AtomInt(2)>>)}

\* Expressions lower_expr panics on: alone, and after operands that emit.
TodoExprs ==
  {AtomFloat, AtomString, AtomIdent("x"), ExprUnary(AtomInt(1)),
   ExprCall(AtomIdent("f"), <<AtomInt(1), AtomInt(2)>>),
   ExprCall(AtomIdent("f"), <<>>),
   ExprBinary("Add", Call0, AtomFloat),
   ExprBinary("Add", AtomIdent("x"), Call0),
   ExprCall(AtomInt(1), <<Call0, AtomIdent("x")>>)}
    \cup {ExprBinary(op, Call0, Add12) :
            op \in {"Shl", "Shr", "BitAnd", "BitXor", "BitOr", "LogicalAnd", "LogicalOr",
                    "Comma", "Index", "Assign"}}
    \cup {ExprPostfix(Call0, pop) :
            pop \in {"Member", "ArrowMember", "Increment", "Decrement"}}

ExprPool == Literals \cup Depth1Exprs \cup Depth2Exprs \cup Depth3Exprs \cup TodoExprs

NextExpr ==
  \/ TuFunctionDef(CtlRetTys)
  \/ LowerExpr(ExprPool, MaxExprStmts)
  \/ EndFunctionBody

SpecExpr == Init /\ [][NextExpr]_vars

(***************************************************************************)
(* The translation units of SpecTypes: functions of declarations of every  *)
(* type specifier, with and without a pointer declarator and initializer.  *)
(***************************************************************************)
TypeDecls ==
  {StmtDecl(ty, NoAttrs, <<InitDecl("x", pointer, init)>>) :
     ty \in TypeSpecifiers, pointer \in BOOLEAN, init \in {NoInit, AtomInt(1)}}
    \cup {StmtDecl(IntSpec, NoAttrs,
                   <<InitDecl("x", FALSE, AtomInt(1)), InitDecl("y", TRUE, AtomInt(2))>>),
          StmtDecl(IntSpec, NoAttrs, <<InitDecl("x", FALSE, AtomFloat)>>)}

NextTypes ==
  \/ TuFunctionDef(CtlRetTys)
  \/ LowerDecl(TypeDecls, MaxTypeDecls)
  \/ EndFunctionBody

SpecTypes == Init /\ [][NextTypes]_vars

(***************************************************************************)
(* SpecIntern: lower_ty, intern_ty, intern_layout and layout_of called on  *)
(* one interner in any order.                                              *)
(***************************************************************************)
InternSpecs ==
  {TypeSpecifier("Void", NoInt, NoInt), TypeSpecifier("Char", NoInt, NoInt), IntSpec}

InternKinds(cx) ==
  {TyKindVoid, TyKind("Integer", "Signed", "Int", 0), TyKind("Struct", NoInt, NoInt, 0)}
    \cup {TyKind("Ptr", NoInt, NoInt, t) : t \in cx.tys}

InternLayouts == {Layout_size_align(1, 1), Layout_size_align(4, 4), Layout_size_align(8, 8)}

Called(fn, arg, cx, ret) ==
  /\ Len(cx.arena) <= MaxArena
  /\ lcx' = cx
  /\ interned' = [fn |-> fn, arg |-> arg, ret |-> ret, before |-> lcx]
  /\ UNCHANGED <<tu_pc, build, scopes, stack, cursor, prog, finished, fault, err>>

CallLowerTy ==
  /\ tu_pc = "tu"
  /\ \E spec \in InternSpecs :
       LET r == lower_ty(lcx, spec) IN Called("lower_ty", spec, r.cx, r.ty)

CallInternTy ==
  /\ tu_pc = "tu"
  /\ \E kind \in InternKinds(lcx) :
       LET r == intern_ty(lcx, kind) IN Called("intern_ty", kind, r.cx, r.ty)

CallInternLayout ==
  /\ tu_pc = "tu"
  /\ \E layout \in InternLayouts :
       LET r == intern_layout(lcx, layout) IN Called("intern_layout", layout, r.cx, r.layout)

CallLayoutOf ==
  /\ tu_pc = "tu"
  /\ \E ty \in lcx.tys :
       LET r == layout_of(lcx, ty)
       IN  IF r.res = "ok"
             THEN Called("layout_of", ty, r.cx, r.tyl)
             ELSE /\ tu_pc' = "abort"
                  /\ fault' = Fault("layout_of", <<>>, "")
                  /\ UNCHANGED <<lcx, build, scopes, stack, cursor, prog, finished, err,
                                 interned>>

NextIntern ==
  \/ CallLowerTy
  \/ CallInternTy
  \/ CallInternLayout
  \/ CallLayoutOf

SpecIntern == Init /\ [][NextIntern]_vars

(***************************************************************************)
(* Vocabulary of the properties.                                           *)
(***************************************************************************)
IsPrefix(p, sp) == Len(p) <= Len(sp) /\ SubSeq(sp, 1, Len(p)) = p

Blocks(b) == 1..Len(b.bbs)

\* The IR statements of a builder, each with its block handle and its place.
Placed(b) ==
  UNION {{[bb |-> i - 1, at |-> k, st |-> b.bbs[i].statements[k]] :
            k \in 1..Len(b.bbs[i].statements)} : i \in Blocks(b)}

BranchTargets(term) ==
  CASE term.k = "Goto" -> {term.target}
    [] term.k = "Switch" -> {term.yes, term.no}
    [] OTHER -> {}

IfEntries == {k \in 1..Len(prog) : prog[k].stmt.s = "If"}

(***************************************************************************)
(* C1.  Every basic block of a function handed to finish() carries a       *)
(* terminator that is Goto or Switch, never Unset, the block that is       *)
(* current when the body ends included.                                    *)
(***************************************************************************)
C1_FinishedBlocksTerminated ==
  \A f \in 1..Len(finished) :
    \A i \in Blocks(finished[f]) : finished[f].bbs[i].term.k \in {"Goto", "Switch"}

(***************************************************************************)
(* C2.  While a function is lowered and when it is handed to finish(),     *)
(* block 0 is the entry block (it holds what is lowered before the first   *)
(* if statement of the body forks, and nothing else), and every target of  *)
(* a Goto and of the yes and no arms of a Switch is the handle of a block  *)
(* of the same function.                                                   *)
(***************************************************************************)
TargetsExist(b) ==
  \A i \in Blocks(b) : BranchTargets(b.bbs[i].term) \subseteq 0..(Len(b.bbs) - 1)

\* The span belongs to the part of the body lowered before any if forks:
\* a statement before the first if of the body, or the condition of that if.
BeforeFirstFork(sp) ==
  \A k \in IfEntries :
    Len(prog[k].span) = 2 =>
      \/ sp[2] < prog[k].span[2]
      \/ IsPrefix(Append(prog[k].span, 0), sp)

C2_EntryAndTargets ==
  /\ \A f \in 1..Len(finished) : TargetsExist(finished[f])
  /\ build # NoBuild =>
       /\ Len(build.bbs) >= 1
       /\ TargetsExist(build)
       /\ \A p \in Placed(build) : (p.bb = 0) <=> BeforeFirstFork(p.st.span)

C2_Witness ==
  /\ tu_pc = "body"
  /\ build.bbs[1].statements # <<>>
  /\ \E i \in Blocks(build) : build.bbs[i].term.k = "Switch"
  /\ \E i \in Blocks(build) : build.bbs[i].term.k = "Goto"
  /\ Len(stack) >= 1

(***************************************************************************)
(* C3.  A body with one if statement, whose bodies A, B and whose          *)
(* following statements S hold no if: with an else there are exactly 4     *)
(* blocks, the predecessor holds the statements of the condition and ends  *)
(* in Switch{cond, yes = then, no = else}, then holds A and ends in        *)
(* Goto(continuation), else holds B and ends in Goto(continuation), the    *)
(* continuation holds S; without an else there are exactly 3 blocks and    *)
(* no = continuation.  After the if the current block is the continuation. *)
(***************************************************************************)
TheIf == prog[CHOOSE k \in IfEntries : TRUE]

OneIfDone == tu_pc = "body" /\ Cardinality(IfEntries) = 1 /\ stack = <<>>

\* The operand the condition lowers to, read off the predecessor block.
CondOperand(cond, pred) ==
  IF cond.e \in {"Int", "Char"}
    THEN Const(cond.v)
    ELSE Reg(pred.statements[Len(pred.statements)].result)

SpansOf(blk) == {blk.statements[k].span : k \in 1..Len(blk.statements)}

C3_IfShape ==
  OneIfDone =>
    LET q == TheIf.span
        oth == TheIf.stmt.otherwise
        cont == Len(build.bbs) - 1
        pred == build.bbs[1]
    IN  /\ Len(build.bbs) = IF oth THEN 4 ELSE 3
        /\ pred.term = BranchSwitch(CondOperand(TheIf.stmt.cond, pred), 1,
                                    IF oth THEN 2 ELSE cont)
        /\ TheIf.stmt.cond.e \notin {"Int", "Char"} =>
             pred.statements[Len(pred.statements)].span = Append(q, 0)
        /\ \A sp \in SpansOf(pred) : sp[2] < q[2] \/ IsPrefix(Append(q, 0), sp)
        /\ \A sp \in SpansOf(build.bbs[2]) : IsPrefix(Append(q, 1), sp)
        /\ build.bbs[2].term = BranchGoto(cont)
        /\ oth => /\ \A sp \in SpansOf(build.bbs[3]) : IsPrefix(Append(q, 2), sp)
                  /\ build.bbs[3].term = BranchGoto(cont)
        /\ \A sp \in SpansOf(build.bbs[cont + 1]) : sp[2] > q[2]
        /\ build.current_bb = cont
        \* nothing that A, B or S emits is lost
        /\ \A k \in 1..Len(prog) :
             k \notin IfEntries =>
               \E p \in Placed(build) : IsPrefix(prog[k].span, p.st.span)

C3_Witness ==
  /\ OneIfDone
  /\ TheIf.stmt.otherwise
  /\ Len(build.bbs) = 4
  /\ \A i \in 2..4 : build.bbs[i].statements # <<>>

(***************************************************************************)
(* Lexical scoping read off the program: the body of an if statement is a  *)
(* scope, and a declaration is visible from its statement to the end of    *)
(* the body it stands in, the bodies nested in that part included.         *)
(***************************************************************************)
DeclaresName(stmt, n) ==
  /\ stmt.s = "Decl"
  /\ \E i \in 1..Len(stmt.declarators) : stmt.declarators[i].name = n

\* The declarations of n in prog that are visible at the statement with span sp.
VisibleDecls(n, sp) ==
  {k \in 1..Len(prog) :
     /\ DeclaresName(prog[k].stmt, n)
     /\ LET d == prog[k].span
        IN  /\ Len(sp) >= Len(d)
            /\ IsPrefix(SubSeq(d, 1, Len(d) - 1), sp)
            /\ d[Len(d)] < sp[Len(d)]}

\* Of visible declarations, the one in the innermost scope, the last in it.
Innermost(V) ==
  CHOOSE k \in V :
    \A j \in V :
      \/ Len(prog[j].span) < Len(prog[k].span)
      \/ /\ Len(prog[j].span) = Len(prog[k].span)
         /\ prog[j].span[Len(prog[j].span)] <= prog[k].span[Len(prog[k].span)]

\* The storage-pointer register of the Alloca of the declaration prog[k] of n.
AllocaReg(k, n) ==
  (CHOOSE p \in Placed(build) :
     /\ p.st.kind = "Alloca"
     /\ p.st.span = prog[k].span
     /\ build.regs[p.st.result + 1] = n).st.result

PlainAssignments ==
  {k \in 1..Len(prog) :
     /\ IsAssignment(prog[k].stmt)
     /\ prog[k].stmt.expr.op = "Assign"
     /\ prog[k].stmt.expr.lhs.e = "Ident"}

StoresOf(k) == {p \in Placed(build) : p.st.kind = "Store" /\ p.st.span = prog[k].span}

(***************************************************************************)
(* C4.  When a name is declared in an inner scope and in an outer scope,   *)
(* an assignment to it made while the inner scope is active emits its      *)
(* Store to the storage pointer of the inner declaration's Alloca.         *)
(***************************************************************************)
C4_StoreToInnerDeclaration ==
  \A k \in PlainAssignments :
    LET n == prog[k].stmt.expr.lhs.name
        V == VisibleDecls(n, prog[k].span)
    IN  (\E i \in V, o \in V : Len(prog[i].span) > Len(prog[o].span)) =>
          \A p \in StoresOf(k) : p.st.ptr = Reg(AllocaReg(Innermost(V), n))

(***************************************************************************)
(* C5.  A plain assignment whose target is declared in no active scope     *)
(* fails with the unresolved-identifier error carrying a message and the   *)
(* identifier's span, emits no Store, and stops the lowering of the        *)
(* function: no Func is produced.                                          *)
(***************************************************************************)
C5_UnresolvedAssignmentFails ==
  \A k \in PlainAssignments :
    VisibleDecls(prog[k].stmt.expr.lhs.name, prog[k].span) = {} =>
      /\ tu_pc = "error"
      /\ k = Len(prog)
      /\ err.msg # ""
      /\ err.span = SubSpan(prog[k].span, "lhs")
      /\ StoresOf(k) = {}
      /\ finished = <<>>

(***************************************************************************)
(* C6.  For every BinOp, the statements of its left operand come before    *)
(* the statements of its right operand in the block, and the BinOp comes   *)
(* after both.                                                             *)
(***************************************************************************)
OperandStatements(b, span, which) ==
  {p \in Placed(b) : IsPrefix(SubSpan(span, which), p.st.span)}

C6_LeftBeforeRight ==
  build # NoBuild =>
    \A p \in Placed(build) :
      p.st.kind = "BinOp" =>
        LET L == OperandStatements(build, p.st.span, "lhs")
            R == OperandStatements(build, p.st.span, "rhs")
        IN  /\ \A q \in L \cup R : q.bb = p.bb /\ q.at < p.at
            /\ \A l \in L, r \in R : l.at < r.at

C6_Witness ==
  /\ tu_pc = "body"
  /\ \E p \in Placed(build) :
       /\ p.st.kind = "BinOp"
       /\ Len(p.st.span) > 2
       /\ Cardinality(OperandStatements(build, p.st.span, "lhs")) >= 1
       /\ Cardinality(OperandStatements(build, p.st.span, "rhs")) >= 1

(***************************************************************************)
(* C7.  Lowering a call such as f(1, 2) emits exactly one Call statement,  *)
(* whose argument list holds the argument operands in source order and     *)
(* whose result is a register of no other statement.                       *)
(***************************************************************************)
IsLiteral(expr) == expr.e \in {"Int", "Char"}

\* The statements that are a call of a name or of a literal on literals.
SimpleCalls ==
  {k \in 1..Len(prog) :
     /\ prog[k].stmt.s = "Expr"
     /\ prog[k].stmt.expr.e = "Postfix"
     /\ prog[k].stmt.expr.pop = "Call"
     /\ prog[k].stmt.expr.lhs.e \in {"Ident", "Int"}
     /\ \A i \in 1..Len(prog[k].stmt.expr.args) : IsLiteral(prog[k].stmt.expr.args[i])}

ResultOf(st) == IF st.kind = "Store" THEN NoBlock ELSE st.result

C7_CallEmitted ==
  \A k \in SimpleCalls :
    LET calls == {p \in Placed(build) : p.st.kind = "Call" /\ p.st.span = prog[k].span}
        args == prog[k].stmt.expr.args
    IN  /\ Cardinality(calls) = 1
        /\ \A c \in calls :
             /\ c.st.args = [i \in 1..Len(args) |-> Const(args[i].v)]
             /\ \A p \in Placed(build) : p # c => ResultOf(p.st) # c.st.result

(***************************************************************************)
(* C8.  Lowering a translation unit of the supported subset, reads of      *)
(* declared variables included, runs to completion: it does not abort.     *)
(***************************************************************************)
C8_SupportedRunsToCompletion ==
  tu_pc = "abort" =>
    /\ fault.msg \notin {"building is not really", "unterminated block"}
    /\ fault.msg = "no idents" => ~resolve_ident(scopes, fault.sym).some

(***************************************************************************)
(* C9.  Every Alloca of a local declaration and every Store of its         *)
(* initializer carries the fixed-ABI size and align of the declared type,  *)
(* and 8/8 whenever the declarator is a pointer.                           *)
(***************************************************************************)
AbiSize(ty) ==
  CASE ty.k \in {"Char", "SChar", "UChar", "Bool"} -> 1
    [] ty.k = "Integer" /\ ty.ik = "Short" -> 2
    [] ty.k = "Integer" /\ ty.ik = "Int" -> 4
    [] ty.k = "Integer" /\ ty.ik \in {"Long", "LongLong"} -> 8
    [] ty.k = "Float" -> 4
    [] ty.k \in {"Double", "LongDouble"} -> 8
    [] ty.k = "Void" -> 0

DeclaredSize(ty, var) == IF var.pointer THEN 8 ELSE AbiSize(ty)

DeclaredAlign(ty, var) == IF var.pointer THEN 8 ELSE IF ty.k = "Void" THEN 1 ELSE AbiSize(ty)

C9_DeclaredLayout ==
  \A k \in 1..Len(prog) :
    prog[k].stmt.s = "Decl" =>
      \A i \in 1..Len(prog[k].stmt.declarators) :
        LET var == prog[k].stmt.declarators[i]
            ty == prog[k].stmt.ty
        IN  \A p \in Placed(build) :
              \/ /\ p.st.kind = "Alloca"
                 /\ p.st.span = prog[k].span
                 /\ build.regs[p.st.result + 1] = var.name
              \/ /\ p.st.kind = "Store"
                 /\ p.st.span = prog[k].span \o <<i, 0>>
              => /\ p.st.size = DeclaredSize(ty, var)
                 /\ p.st.align = DeclaredAlign(ty, var)

(***************************************************************************)
(* C10.  The interner holds at most one instance of each TyKind and of     *)
(* each Layout; a call whose input is already interned returns the         *)
(* instance that is there and allocates nothing; the instance a call       *)
(* returns holds the input; instances are never replaced or changed.       *)
(***************************************************************************)
OneInstanceEach(cx) ==
  /\ \A a \in cx.tys, b \in cx.tys : cx.arena[a] = cx.arena[b] => a = b
  /\ \A a \in cx.layouts, b \in cx.layouts : cx.arena[a] = cx.arena[b] => a = b

InstancesKept(old, new) ==
  /\ Len(old.arena) <= Len(new.arena)
  /\ SubSeq(new.arena, 1, Len(old.arena)) = old.arena
  /\ old.tys \subseteq new.tys
  /\ old.layouts \subseteq new.layouts

\* The kind or layout the call was to intern, and the instance it returned.
InternedValue(c) ==
  CASE c.fn = "lower_ty" -> TyKind(c.arg.k, c.arg.sign, c.arg.ik, 0)
    [] c.fn = "intern_ty" -> c.arg
    [] c.fn = "intern_layout" -> c.arg
    [] c.fn = "layout_of" -> LayoutOfKind(c.before.arena[c.arg])

InternedInstance(c) == IF c.fn = "layout_of" THEN c.ret.layout ELSE c.ret

InternedSet(c, cx) == IF c.fn \in {"lower_ty", "intern_ty"} THEN cx.tys ELSE cx.layouts

Repeated(c) == \E a \in InternedSet(c, c.before) : c.before.arena[a] = InternedValue(c)

C10_InternedOnce ==
  /\ OneInstanceEach(lcx)
  /\ interned # NoCall =>
       /\ InstancesKept(interned.before, lcx)
       /\ InternedInstance(interned) \in InternedSet(interned, lcx)
       /\ lcx.arena[InternedInstance(interned)] = InternedValue(interned)
       /\ interned.fn = "layout_of" => interned.ret.ty = interned.arg
       /\ Repeated(interned) =>
            /\ lcx = interned.before
            /\ InternedInstance(interned) \in InternedSet(interned, interned.before)

C10_Witness ==
  /\ interned.fn \in {"intern_ty", "lower_ty"}
  /\ Repeated(interned)
  /\ Cardinality(lcx.tys) >= 2
  /\ Cardinality(lcx.layouts) >= 1

(***************************************************************************)
(* C11.  A declaration made in a body of an if statement is visible only   *)
(* in that body: after the if statement every name resolves as it did      *)
(* before it, and an assignment after the if statement to a name that a    *)
(* body declared stores to the storage pointer of the outer declaration.   *)
(*                                                                         *)
(* Before an if statement no name is bound to a declaration of its bodies, *)
(* so a name bound to one after it does not resolve as it did before.      *)
(***************************************************************************)
\* The if statements of prog whose lowering is over at the cursor.
IfsJustDone == {f \in IfEntries : tu_pc = "body" /\ cursor = NextSpan(prog[f].span)}

\* The if statements of prog that stand before prog[k] in the body of prog[k]
\* and declare n in one of their bodies.
IfsBeforeDeclaring(k, n) ==
  {f \in IfEntries :
     /\ Len(prog[f].span) = Len(prog[k].span)
     /\ NextSpan(prog[f].span)[Len(prog[f].span)] <= prog[k].span[Len(prog[k].span)]
     /\ SubSeq(prog[f].span, 1, Len(prog[f].span) - 1)
          = SubSeq(prog[k].span, 1, Len(prog[k].span) - 1)
     /\ \E d \in 1..Len(prog) :
          DeclaresName(prog[d].stmt, n) /\ IsPrefix(prog[f].span, prog[d].span)}

BindingKeptAcrossIf ==
  \A f \in IfsJustDone : \A n \in Names :
    LET after == resolve_ident(scopes, n)
    IN  after.some => ~IsPrefix(prog[f].span, after.v.def_span)

StoreAfterIfToOuter ==
  \A k \in PlainAssignments :
    LET n == prog[k].stmt.expr.lhs.name
        V == VisibleDecls(n, prog[k].span)
    IN  IfsBeforeDeclaring(k, n) # {} /\ V # {} =>
          \A p \in StoresOf(k) : p.st.ptr = Reg(AllocaReg(Innermost(V), n))

C11_IfBodyDeclarationsStayInside == BindingKeptAcrossIf /\ StoreAfterIfToOuter


(***************************************************************************)
(* C12.  While a function is lowered, a statement is appended only to the  *)
(* current block and only while its terminator is Unset, and a terminator  *)
(* is assigned only to a block whose terminator is Unset: no statement     *)
(* follows a Goto or Switch, and no if statement overwrites a terminator.  *)
(***************************************************************************)
\* The blocks that the active if statements will give their Switch are
\* distinct, none is the current block, and none has a terminator yet; so the
\* Goto and the Switch that one if statement assigns go to different blocks.
PredsPending ==
  tu_pc = "body" =>
    /\ build.bbs[build.current_bb + 1].term = BranchUnset
    /\ \A i \in 1..Len(stack) :
         /\ stack[i].pred # build.current_bb
         /\ build.bbs[stack[i].pred + 1].term = BranchUnset
         /\ \A j \in 1..Len(stack) : stack[j].pred = stack[i].pred => j = i

AppendedWhileUnset ==
  tu_pc = "body" =>
    /\ Len(build'.bbs) >= Len(build.bbs)
    /\ \A i \in Blocks(build) :
         /\ build'.bbs[i].statements # build.bbs[i].statements =>
              /\ i = build.current_bb + 1
              /\ build.bbs[i].term = BranchUnset
              /\ IsPrefix(build.bbs[i].statements, build'.bbs[i].statements)
         /\ build'.bbs[i].term # build.bbs[i].term =>
              /\ build.bbs[i].term = BranchUnset
              /\ build'.bbs[i].statements = build.bbs[i].statements
    /\ \A i \in Blocks(build') \ Blocks(build) : build'.bbs[i] = EmptyBlock

C12_TerminatorsAssignedOnce ==
  [][PredsPending /\ PredsPending' /\ AppendedWhileUnset]_vars

\* An if statement nested in another is over, both have their terminators,
\* and a statement was appended to the continuation block after them.
C12_Witness ==
  /\ tu_pc = "body"
  /\ stack = <<>>
  /\ \E f \in IfEntries, g \in IfEntries :
       /\ f # g
       /\ IsPrefix(prog[f].span, prog[g].span)
       /\ prog[Len(prog)].span[2] > prog[f].span[2]
  /\ build.bbs[build.current_bb + 1].statements # <<>>
  /\ \A i \in Blocks(build) :
       i # build.current_bb + 1 => build.bbs[i].term # BranchUnset


=============================================================================
